---- MODULE Spec2Model ----
(***************************************************************************)
(* A model of lldpy (src/lldpy.py): the record decoder (Atom.__init__),    *)
(* the iteration helper (Atom.walk) and the Watcher thread                 *)
(* (connect / load / loop / process).  The lldpctl library is the          *)
(* environment: its answers are nondeterministic choices from bounded sets.*)
(***************************************************************************)
EXTENDS Integers, Sequences, FiniteSets, TLC

\* ------------------------------------------------------------------ bounds
\* longest chassis_mgmt list a backend port atom carries
MaxMgmt == 1
\* longest port_neighbors list a backend ports atom carries
MaxNbrs == 2
\* longest list handed to Atom.walk on its own
MaxLen == 4
\* most interfaces lldpctl_get_interfaces reports
MaxIfaces == 2
\* most neighbors one reported interface has
MaxPorts == 1
\* most notifications the backend delivers within one session
MaxEvents == 2
\* most wait errors the backend produces
MaxErrors == 1
\* most notifications per session when two Watchers run side by side
MultiEvents == 1
\* most times lldpctl_new fails
MaxFailures == 1
\* largest chassis_cap_enabled value the backend reports
MaxCaps == 31

\* ------------------------------------------------- the backend's constants
\* FFI.NULL for a char *
NULL == "FFI.NULL"
\* FFI.NULL for a lldpctl_conn_t *; the handles lldpctl_new allocates are 1, 2, ...
NullConn == -1
\* FFI.NULL for a list atom, and a non-null list atom holding items
NullList == [null |-> TRUE, items |-> <<>>]
List(items) == [null |-> FALSE, items |-> items]

\* Atom.prefix (line 20)
prefix == "lldpctl_k_"
\* dir(LIB): names of the loaded library, as (prefix, rest); only some are keys
LibDir ==
    { <<"lldpctl_k_", "chassis_cap_enabled">>,
      <<"lldpctl_k_", "chassis_mgmt">>,
      <<"lldpctl_k_", "interface_name">>,
      <<"lldpctl_k_", "port_name">>,
      <<"lldpctl_k_", "port_neighbors">>,
      <<"lldpctl_c_", "added">>,
      <<"lldpctl_", "watch">> }

\* k.startswith(prefix)
startswith(k, p) == k[1] = p
\* the key names the library itself knows (its lldpctl_key_t enum)
LibKeys == { k \in LibDir : startswith(k, prefix) }

\* the interpreters setup.py admits (lines 11-12): Python 2.5, the later
\* Python 2 (2.6 and 2.7), and Python 3.x
Interpreters == {"python2.5", "python2", "python3"}
VARIABLE python     \* the interpreter the application imports the module with

\* the class body of Atom (lines 20-21), run when the module is imported.
\* The condition of line 21's list comprehension reads the class variable
\* prefix: Python 2 runs a list comprehension in the scope of the class body
\* and finds it; Python 3 runs it in a scope of its own, from which names of
\* the class body cannot be seen, and raises NameError for the first name
\* of dir(LIB) it tests, so that the import fails.
AtomClassBody(py) ==
    IF py = "python3" /\ LibDir # {}
    THEN [raised |-> "NameError", keys |-> {}]
    ELSE [raised |-> "none", keys |-> { k \in LibDir : startswith(k, prefix) }]
\* compiling the module, the first thing import lldpy does: print_function
\* (line 3) is a future feature from Python 2.6 on, and the with statement of
\* line 180 is no statement of Python 2.5 without its own future import, so
\* that Python 2.5 gives up with a SyntaxError before any line runs
compile(py) == IF py = "python2.5" THEN "SyntaxError" ELSE "none"
\* import lldpy: the module is compiled, then run from its top
import_lldpy(py) ==
    IF compile(py) # "none"
    THEN [raised |-> compile(py), keys |-> {}]
    ELSE AtomClassBody(py)
\* whether import lldpy succeeded: only then are there classes and Watchers
imported == import_lldpy(python).raised = "none"
\* Atom.keys (line 21)
keys == import_lldpy(python).keys
\* keyname.replace(self.prefix, '') (line 37): the name without its prefix parts
replace(keyname) == SelectSeq(keyname, LAMBDA part : part # prefix)
\* the attribute name setattr uses: the remaining text of the key name
FieldOf(keyname) == replace(keyname)[1]
Fields == { FieldOf(k) : k \in keys }
KeyOfField(f) == CHOOSE k \in keys : FieldOf(k) = f

\* key_to_type of each record class (lines 25, 88, 92; Interface inherits Atom's)
Classes == {"Atom", "Port", "Ports", "Interface"}
key_to_type(cls) ==
    CASE cls = "Port"  -> [k \in {<<"lldpctl_k_", "chassis_mgmt">>} |-> "Atom"]
      [] cls = "Ports" -> [k \in {<<"lldpctl_k_", "port_neighbors">>} |-> "Port"]
      [] OTHER         -> [k \in {} |-> "Atom"]

\* ------------------------------------------------------ backend atoms
\* A backend atom answers lldpctl_atom_get_str (str) and lldpctl_atom_get (lst)
\* for every key: s and l give the non-null answers by the key's short name.
BackendAtom(s, l) ==
    [ str |-> [k \in LibKeys |-> IF k[2] \in DOMAIN s THEN s[k[2]] ELSE NULL],
      lst |-> [k \in LibKeys |-> IF k[2] \in DOMAIN l THEN l[k[2]] ELSE NullList] ]
NoFields == [x \in {} |-> NULL]
Named(key, text) == IF text = NULL THEN NoFields ELSE [x \in {key} |-> text]

\* all sequences over S of length at most n
SeqsUpTo(S, n) == UNION { [1..m -> S] : m \in 0..n }
ListsUpTo(S, n) == {NullList} \cup { List(s) : s \in SeqsUpTo(S, n) }

\* the atoms the decoder is checked on: management addresses, neighbor ports
\* (with a chassis_mgmt list), ports atoms (with a port_neighbors list)
MgmtAtoms ==
    { BackendAtom(Named("port_name", n), NoFields) : n \in {NULL, "10.0.0.1"} }
PortAtoms ==
    { BackendAtom(Named("port_name", n), [chassis_mgmt |-> m]) :
        n \in {NULL, "ge-0/0/1"}, m \in ListsUpTo(MgmtAtoms, MaxMgmt) }
PortsAtoms ==
    { BackendAtom(Named("chassis_cap_enabled", c), [port_neighbors |-> nb]) :
        c \in {NULL, "6"}, nb \in ListsUpTo(PortAtoms, MaxNbrs) }

\* ------------------------------------------------------------ Atom.walk
\* lldpctl_atom_iter / lldpctl_atom_iter_next: a cursor is a position, 0 is NULL
atom_iter(lst) == IF lst.null \/ Len(lst.items) = 0 THEN 0 ELSE 1
atom_iter_next(lst, it) == IF it < Len(lst.items) THEN it + 1 ELSE 0

\* A walk generator object: state created / suspended (at the yield) /
\* finished (StopIteration) / closed (GeneratorExit at the yield).
\* acq: positions lldpctl_atom_iter_value handed out; rel: positions dec_ref'ed;
\* log: what was done with each element, in order: the walk's own steps
\* (iter_value, yield, iter_next, dec_ref) and its consumer's (decode).
NewWalk(lst) ==
    [ ptr |-> lst, state |-> "created", iterator |-> 0, value |-> 0,
      acq |-> <<>>, rel |-> <<>>, log |-> <<>> ]

\* a walk that gives the element back before it yields it
walk_next_release_first(g) ==
    LET it  == IF g.state = "created" THEN atom_iter(g.ptr)
               ELSE atom_iter_next(g.ptr, g.iterator)
        log == IF g.state = "suspended"
               THEN Append(g.log, <<"iter_next", g.value>>) ELSE g.log
    IN IF it # 0
       THEN [g EXCEPT !.state = "suspended", !.iterator = it, !.value = it,
                      !.acq = Append(g.acq, it), !.rel = Append(g.rel, it),
                      !.log = log \o << <<"iter_value", it>>, <<"dec_ref", it>>,
                                        <<"yield", it>> >>]
       ELSE [g EXCEPT !.state = "finished", !.iterator = 0, !.log = log]

\* next(gen): run the generator to its next yield or to its end (lines 79-84):
\* resumed after its yield it advances the cursor (line 83) and then releases
\* the element it had yielded (line 84); while the cursor is not NULL it reads
\* the element (line 81) and yields it (line 82)
walk_next(g) ==
    LET it  == IF g.state = "created" THEN atom_iter(g.ptr)
               ELSE atom_iter_next(g.ptr, g.iterator)
        rel == IF g.state = "suspended" THEN Append(g.rel, g.value) ELSE g.rel
        log == IF g.state = "suspended"
               THEN g.log \o << <<"iter_next", g.value>>, <<"dec_ref", g.value>> >>
               ELSE g.log
    IN IF it # 0
       THEN [g EXCEPT !.state = "suspended", !.iterator = it, !.value = it,
                      !.acq = Append(g.acq, it), !.rel = rel,
                      !.log = log \o << <<"iter_value", it>>, <<"yield", it>> >>]
       ELSE [g EXCEPT !.state = "finished", !.iterator = 0, !.rel = rel, !.log = log]

\* the consumer decodes the element the walk has yielded: cls(value)
walk_decode(g) == [g EXCEPT !.log = Append(@, <<"decode", g.value>>)]

\* gen.close(), or the generator collected while suspended: GeneratorExit is
\* raised at the yield (line 82) and lines 83-84 do not run
walk_close(g) == [g EXCEPT !.state = "closed"]

\* ----------------------------------------------------- Atom.__init__
\* Python values a decoder returns: None, or a value
None == [none |-> TRUE, v |-> NULL]
Some(v) == [none |-> FALSE, v |-> v]
\* FFI.string(raw): the text of a non-null char *
FFIstring(raw) == raw

RECURSIVE AtomInit(_, _)
\* [cls_(i) for i in Atom.walk(raw)] (line 44), from the walk g on: the walk
\* is run to its end, each element it yields is decoded as cls_
RECURSIVE comprehension(_, _)
comprehension(cls_, g) ==
    LET n == walk_next(g)
    IN IF n.state = "suspended"
       THEN <<AtomInit(cls_, n.ptr.items[n.value])>> \o comprehension(cls_, n)
       ELSE <<>>

\* Atom._decode_as_string (lines 46-50)
decode_as_string(cls, keyname, ptr) ==
    LET raw == ptr.str[keyname]
    IN IF raw # NULL THEN Some(FFIstring(raw)) ELSE None

\* _decode_as_atom answering None, like _decode_as_string, for a NULL list
decode_as_atom_none(cls, keyname, ptr) ==
    LET raw == ptr.lst[keyname]
        cls_ == key_to_type(cls)[keyname]
    IN IF ~raw.null
       THEN Some(comprehension(cls_, NewWalk(raw)))
       ELSE None

\* _decode_as_atom decoding every element as the class it is called on
decode_as_atom_same(cls, keyname, ptr) ==
    LET raw == ptr.lst[keyname]
        cls_ == IF cls = "Interface" THEN "Atom" ELSE cls
    IN IF ~raw.null
       THEN Some(comprehension(cls_, NewWalk(raw)))
       ELSE Some(<<>>)

\* Atom._decode_as_atom (lines 39-44): the list of the key is fetched, and
\* unless it is NULL walked, each element decoded as the key's mapped class
decode_as_atom(cls, keyname, ptr) ==
    LET raw == ptr.lst[keyname]
        cls_ == key_to_type(cls)[keyname]
    IN IF ~raw.null
       THEN Some(comprehension(cls_, NewWalk(raw)))
       ELSE Some(<<>>)

\* lines 30-35: val = func(keyname, keynum, ptr)
decode(cls, keyname, ptr) ==
    IF keyname \in DOMAIN key_to_type(cls)
    THEN decode_as_atom(cls, keyname, ptr)
    ELSE decode_as_string(cls, keyname, ptr)

\* Atom.__init__ (lines 27-37): the object's __dict__, attribute name -> value;
\* an attribute is set when val is not None
AtomInit(cls, ptr) ==
    LET set == { k \in keys : ~decode(cls, k, ptr).none }
    IN [ f \in { FieldOf(k) : k \in set } |-> decode(cls, KeyOfField(f), ptr).v ]

\* Interface.__init__ (lines 96-98): the Atom fields, then self.port
InterfaceInit(ptr) ==
    LET base == AtomInit("Interface", ptr)
        port == AtomInit("Ports", ptr.port)
    IN [ f \in DOMAIN base \cup {"port"} |-> IF f = "port" THEN port ELSE base[f] ]

\* ------------------------------------------------- capability properties
\* int(text) for the decimal text the backend gives an integer key
int(text) == CHOOSE n \in 0..MaxCaps : ToString(n) = text
\* value & flag on non-negative integers
RECURSIVE bitand(_, _)
bitand(a, b) ==
    IF a = 0 \/ b = 0 THEN 0
    ELSE (a % 2) * (b % 2) + 2 * bitand(a \div 2, b \div 2)

\* a capability test that takes any value at least as large as the flag
enabled_atleast(rec, flag) ==
    LET value == IF "chassis_cap_enabled" \in DOMAIN rec
                 THEN int(rec["chassis_cap_enabled"]) ELSE 0
    IN value >= flag

\* Atom._enabled (lines 52-55): bool(int(getattr(self, 'chassis_cap_enabled', 0)) & flag)
enabled(rec, flag) ==
    LET value == IF "chassis_cap_enabled" \in DOMAIN rec
                 THEN int(rec["chassis_cap_enabled"]) ELSE 0
    IN bitand(value, flag) # 0

\* the flag each property passes to _enabled (lines 57-71): 0x02, 0x04, 0x08, 0x10
FlagOf ==
    [ repeater_enabled |-> 2, bridge_enabled |-> 4,
      wlan_enabled |-> 8, router_enabled |-> 16 ]
Properties == DOMAIN FlagOf

\* ------------------------------------------------- the backend's inventory
IfNames == <<"eth0", "eth1", "eth2", "eth3">>
NbrNames == <<"sw1", "sw2", "sw3", "sw4">>
\* the neighbor port atom at position j of an interface's port_neighbors
NbrAtom(j) == BackendAtom([port_name |-> NbrNames[j]], NoFields)
\* what lldpctl_atom_get(port, lldpctl_k_port_neighbors) may answer
NbrLists == { List([j \in 1..c |-> NbrAtom(j)]) : c \in 0..MaxPorts }
\* the interface atom at position i, whose lldpctl_get_port has neighbors nb
IfaceAtom(i, nb) ==
    [ str  |-> BackendAtom([interface_name |-> IfNames[i]], NoFields).str,
      lst  |-> BackendAtom(NoFields, NoFields).lst,
      port |-> BackendAtom(NoFields, [port_neighbors |-> nb]) ]
\* what lldpctl_get_interfaces(conn) may answer: NULL, or a list of interfaces
Inventories ==
    {NullList} \cup
    UNION { { List([i \in 1..m |-> IfaceAtom(i, nbs[i])]) : nbs \in [1..m -> NbrLists] } :
            m \in 0..MaxIfaces }

\* the lldpctl_change_t values a notification carries
ChangeTypes == {"lldpctl_c_added", "lldpctl_c_deleted", "lldpctl_c_updated"}
\* the handles the backend passes with a notification
EventLocal == IfaceAtom(1, List(<<NbrAtom(1)>>))
EventRemote == BackendAtom([port_name |-> NbrNames[1]], [chassis_mgmt |-> List(<<>>)])
\* lldpctl_watch's return codes: 0, or an error
WatchCodes == {0, -1}

\* ------------------------------------------------------------------ state
Watchers == {"w1", "w2"}

VARIABLES
    pc,         \* where each Watcher thread is
    stop,       \* self.stop (threading.Event)
    conn,       \* run's local conn: a handle, 0 outside the scope
    owner,      \* owner[h]: the Watcher whose lldpctl_new returned handle h
    released,   \* the handles passed to lldpctl_release, in order
    session,    \* how many connections each Watcher has opened
    inventory,  \* the backend's interface list while the connection is open
    gen,        \* load's Interface.walk generator
    iface,      \* load's current interface record
    nbrs,       \* interface.port.port_neighbors of the current interface
    nbIdx,      \* how many of nbrs the inner loop has taken
    err,        \* loop's local err
    errlog,     \* how many times loop called LOGGER.error
    active,     \* override invocations in progress
    calls,      \* the override invocations of the current session, in order
    delivered,  \* the notifications the backend delivered in this session
    waited,     \* whether lldpctl_watch has been called in this session
    seen,       \* the tracked (interface, neighbor) names Load reported in earlier sessions
    stopMark,   \* where the thread was when the stop flag was set, and the
                \* lldpctl_new and lldpctl_watch calls it has made since
    raised,     \* the exception that ended run, if one did
    wgen,       \* a walk generator driven by a consumer of its own
    dcls, dptr, drec, ddone,  \* a record class, a backend atom, its decoding
    flags,      \* the capability properties read from the decoded record
    daemon      \* what lldpd has to report: the interface lists it may answer
                \* with, and how many notifications it sends in one session

wvars == <<pc, stop, conn, owner, released, session, inventory, gen, iface, nbrs, nbIdx,
           err, errlog, active, calls, delivered, waited, seen, stopMark, raised>>
dvars == <<dcls, dptr, drec, ddone>>
\* what no step of a Watcher touches
xvars == <<wgen, dvars, flags, daemon, python>>
vars == <<wvars, wgen, dvars, flags, daemon, python>>

NoWalk == [NewWalk(NullList) EXCEPT !.state = "none"]
NoRecord == [f \in {} |-> NULL]
NoMark == [at |-> "unset", conns |-> 0, waits |-> 0]
NoFlags == [p \in {} |-> FALSE]

InitWatchers ==
    /\ pc = [w \in Watchers |-> "idle"]
    /\ stop = [w \in Watchers |-> FALSE]
    /\ conn = [w \in Watchers |-> 0]
    /\ owner = <<>>
    /\ released = <<>>
    /\ session = [w \in Watchers |-> 0]
    /\ inventory = [w \in Watchers |-> NullList]
    /\ gen = [w \in Watchers |-> NoWalk]
    /\ iface = [w \in Watchers |-> NoRecord]
    /\ nbrs = [w \in Watchers |-> <<>>]
    /\ nbIdx = [w \in Watchers |-> 0]
    /\ err = [w \in Watchers |-> 0]
    /\ errlog = [w \in Watchers |-> 0]
    /\ active = [w \in Watchers |-> 0]
    /\ calls = [w \in Watchers |-> <<>>]
    /\ delivered = [w \in Watchers |-> <<>>]
    /\ waited = [w \in Watchers |-> FALSE]
    /\ seen = [w \in Watchers |-> {}]
    /\ stopMark = [w \in Watchers |-> NoMark]
    /\ raised = [w \in Watchers |-> "none"]
InitWalk == wgen = NoWalk
InitDecode == dcls = "Atom" /\ dptr = BackendAtom(NoFields, NoFields)
              /\ drec = NoRecord /\ ddone = FALSE

InitFlags == flags = NoFlags
\* a daemon that may report any interface list and send MaxEvents notifications
InitDaemon == daemon = [inventories |-> "any", events |-> MaxEvents]
\* the application runs on any interpreter setup.py admits
InitPython == python \in Interpreters

Init == InitPython /\ InitWatchers /\ InitWalk /\ InitDecode /\ InitFlags /\ InitDaemon

\* ------------------------------------------------------------ the Watcher
Range(q) == { q[i] : i \in DOMAIN q }
\* the handles w opened that were not given back to lldpctl_release
held(w) == { h \in DOMAIN owner : owner[h] = w /\ h \notin Range(released) }
\* how many times lldpctl_new answered w with NULL
failures(w) == session[w] - Cardinality({ h \in DOMAIN owner : owner[h] = w })
\* the sum of a counter over a set of Watchers
RECURSIVE SumOver(_, _)
SumOver(f, S) ==
    IF S = {} THEN 0
    ELSE LET x == CHOOSE y \in S : TRUE IN f[x] + SumOver(f, S \ {x})
\* a running that does not look at the stop flag
running_regardless(w) == TRUE
\* Watcher.running (lines 173-176)
running(w) == ~stop[w]

\* a with block that drops the handle without giving it back
release_dropped(w) ==
    /\ UNCHANGED released
    /\ conn' = [conn EXCEPT ![w] = 0]

\* leaving the with block normally: connect resumes after its yield and
\* calls lldpctl_release(conn) (line 128)
release(w) ==
    /\ released' = Append(released, conn[w])
    /\ conn' = [conn EXCEPT ![w] = 0]

\* an exception leaving the with block: it is thrown into connect at its yield
\* (line 127), which has no try/finally, so line 128 does not run; run ends
raise_out(w, exc) ==
    /\ pc' = [pc EXCEPT ![w] = "crashed"]
    /\ raised' = [raised EXCEPT ![w] = exc]
    /\ gen' = [gen EXCEPT ![w] = IF @.state = "suspended" THEN walk_close(@) ELSE @]
    /\ conn' = [conn EXCEPT ![w] = 0]
    /\ UNCHANGED released

\* the application starts the thread
Start(w) ==
    /\ imported
    /\ pc[w] = "idle"
    /\ pc' = [pc EXCEPT ![w] = "run"]
    /\ UNCHANGED <<xvars, raised, stop, conn, owner, released, session, inventory, gen, iface, nbrs, nbIdx,
                   err, errlog, active, calls, delivered, waited, seen, stopMark>>

\* the application sets the stop flag: watcher.stop.set()
SetStop(w) ==
    /\ imported
    /\ ~stop[w]
    /\ stop' = [stop EXCEPT ![w] = TRUE]
    /\ stopMark' = [stopMark EXCEPT ![w] =
         [at |-> IF pc[w] = "idle" THEN "idle"
                 ELSE IF pc[w] \in {"load", "ports", "on_add"} /\ gen[w].state # "none"
                 THEN "load" ELSE "other",
          conns |-> 0, waits |-> 0]]
    /\ UNCHANGED <<xvars, raised, pc, conn, owner, released, session, inventory, gen, iface, nbrs, nbIdx,
                   err, errlog, active, calls, delivered, waited, seen>>

\* run, line 179: while self.running
run_check(w) ==
    /\ pc[w] = "run"
    /\ pc' = [pc EXCEPT ![w] = IF running(w) THEN "connect" ELSE "done"]
    /\ UNCHANGED <<xvars, raised, stop, conn, owner, released, session, inventory, gen, iface, nbrs, nbIdx,
                   err, errlog, active, calls, delivered, waited, seen, stopMark>>

\* a with body that goes to loop(conn) without load(conn)
with_body_no_load == "loop"

\* the first statement of the with body (line 181)
with_body == "load"

\* the neighbors whose reports are remembered across sessions: one pair stands
\* for any, the Watcher treating all alike
Tracked == { <<IfNames[1], NbrNames[1]>> }

\* the (interface name, neighbor name) of the Load calls in a log
LoadNames(log) ==
    { <<log[i].local["interface_name"], log[i].remote["port_name"]>> :
        i \in { j \in DOMAIN log : log[j].src = "load" } }

\* what lldpctl_get_interfaces may answer on a connection to the daemon
DaemonInventories ==
    IF daemon.inventories = "any" THEN Inventories
    ELSE {List(<<IfaceAtom(1, List(<<NbrAtom(1)>>))>>)}

\* what LIB.lldpctl_new may answer w (line 123): a handle never given out
\* before, or NULL when the connection cannot be set up
lldpctl_new(w) ==
    {Len(owner) + 1} \cup
    (IF SumOver(session, Watchers) - Len(owner) < MaxFailures THEN {NullConn} ELSE {})

\* run, line 180, entering connect (lines 123-127): lldpctl_new answers a new
\* handle or NULL; unchecked (line 124), the answer is given to
\* lldpctl_watch_callback and yielded to run.  A NULL connection has no
\* interface list to give.
connect(w) ==
    /\ pc[w] = "connect"
    /\ \E c \in lldpctl_new(w) :
         /\ conn' = [conn EXCEPT ![w] = c]
         /\ owner' = IF c = NullConn THEN owner ELSE Append(owner, w)
         /\ \E intfs \in (IF c = NullConn THEN {NullList} ELSE DaemonInventories) :
              inventory' = [inventory EXCEPT ![w] = intfs]
    /\ session' = [session EXCEPT ![w] = @ + 1]
    /\ seen' = [seen EXCEPT ![w] = @ \cup (LoadNames(calls[w]) \cap Tracked)]
    /\ calls' = [calls EXCEPT ![w] = <<>>]
    /\ delivered' = [delivered EXCEPT ![w] = <<>>]
    /\ waited' = [waited EXCEPT ![w] = FALSE]
    /\ gen' = [gen EXCEPT ![w] = NoWalk]
    /\ iface' = [iface EXCEPT ![w] = NoRecord]
    /\ nbrs' = [nbrs EXCEPT ![w] = <<>>]
    /\ nbIdx' = [nbIdx EXCEPT ![w] = 0]
    /\ pc' = [pc EXCEPT ![w] = with_body]
    /\ stopMark' = [stopMark EXCEPT ![w].conns = IF stop[w] THEN @ + 1 ELSE @]
    /\ UNCHANGED <<xvars, raised, stop, released, err, errlog, active>>

\* the body of Interface.iterator's for loop (line 106) and the head of load's
\* inner loop: the element the walk yielded is decoded and handed to load
load_yield(w, g) ==
    LET interface == InterfaceInit(g.ptr.items[g.value])
    IN /\ gen' = [gen EXCEPT ![w] = walk_decode(g)]
       /\ iface' = [iface EXCEPT ![w] = interface]
       /\ nbrs' = [nbrs EXCEPT ![w] = interface["port"]["port_neighbors"]]
       /\ nbIdx' = [nbIdx EXCEPT ![w] = 0]
       /\ pc' = [pc EXCEPT ![w] = "ports"]
       /\ UNCHANGED <<conn, released, raised>>

\* a generator whose raise StopIteration always reaches its caller as a
\* RuntimeError
raise_StopIteration_pep479(py) == {"RuntimeError"}

\* what the caller of a generator sees when its body executes
\* raise StopIteration (line 104): Python 2 ends the generator with that
\* StopIteration; Python 3 does so before 3.7 and turns it into a RuntimeError
\* from 3.7 on (PEP 479)
raise_StopIteration(py) ==
    IF py \in {"python2.5", "python2"}
    THEN {"StopIteration"}
    ELSE {"StopIteration", "RuntimeError"}

\* load, line 188: the for loop asks Interface.iterator for its next interface
load_next(w) ==
    /\ pc[w] = "load"
    /\ \/ \* first step: lldpctl_get_interfaces answers a list (lines 102-105)
          /\ gen[w].state = "none"
          /\ ~inventory[w].null
          /\ LET g == walk_next(NewWalk(inventory[w]))
             IN IF g.state = "suspended"
                THEN load_yield(w, g)
                ELSE /\ gen' = [gen EXCEPT ![w] = g]
                     /\ pc' = [pc EXCEPT ![w] = "loop"]
                     /\ UNCHANGED <<iface, nbrs, nbIdx, conn, released, raised>>
       \/ \* first step, NULL list: raise StopIteration (lines 103-104); load's
          \* for loop ends when it sees StopIteration, and any other exception
          \* leaves load
          /\ gen[w].state = "none"
          /\ inventory[w].null
          /\ \E exc \in raise_StopIteration(python) :
               IF exc = "StopIteration"
               THEN /\ pc' = [pc EXCEPT ![w] = "loop"]
                    /\ UNCHANGED <<gen, iface, nbrs, nbIdx, conn, released, raised>>
               ELSE /\ raise_out(w, exc)
                    /\ UNCHANGED <<iface, nbrs, nbIdx>>
       \/ \* a later step: the walk resumes after its yield (lines 83-84)
          /\ gen[w].state = "suspended"
          /\ LET g == walk_next(gen[w])
             IN IF g.state = "suspended"
                THEN load_yield(w, g)
                ELSE /\ gen' = [gen EXCEPT ![w] = g]
                     /\ pc' = [pc EXCEPT ![w] = "loop"]
                     /\ UNCHANGED <<iface, nbrs, nbIdx, conn, released, raised>>
    /\ UNCHANGED <<xvars, stop, owner, session, inventory, err, errlog, active, calls, delivered,
                   waited, seen, stopMark>>

\* an inner loop that hands on_add to another thread and goes on
ports_ready_async(w) == pc[w] \in {"ports", "on_add"}

\* load's inner loop may take its next port when the previous on_add returned
ports_ready(w) == pc[w] = "ports"

\* a load that remembers what it reported and skips it after a reconnect
ports_step_dedup(w) ==
    /\ pc[w] = "ports"
    /\ IF nbIdx[w] < Len(nbrs[w])
       THEN /\ nbIdx' = [nbIdx EXCEPT ![w] = @ + 1]
            /\ IF <<iface[w]["interface_name"], nbrs[w][nbIdx[w] + 1]["port_name"]>> \in seen[w]
               THEN UNCHANGED <<calls, active, pc>>
               ELSE /\ calls' = [calls EXCEPT ![w] =
                         Append(@, [src |-> "load", fn |-> "on_add", note |-> 0,
                                    local |-> iface[w], remote |-> nbrs[w][nbIdx[w] + 1]])]
                    /\ active' = [active EXCEPT ![w] = @ + 1]
                    /\ pc' = [pc EXCEPT ![w] = "on_add"]
       ELSE /\ pc' = [pc EXCEPT ![w] = "load"]
            /\ UNCHANGED <<nbIdx, calls, active>>
    /\ UNCHANGED <<xvars, raised, stop, conn, owner, released, session, inventory, gen, iface, nbrs,
                   err, errlog, delivered, waited, seen, stopMark>>

\* load, lines 189-190: the next neighbor of the interface goes to on_add
ports_step(w) ==
    /\ ports_ready(w)
    /\ IF nbIdx[w] < Len(nbrs[w])
       THEN /\ nbIdx' = [nbIdx EXCEPT ![w] = @ + 1]
            /\ calls' = [calls EXCEPT ![w] =
                 Append(@, [src |-> "load", fn |-> "on_add", note |-> 0,
                            local |-> iface[w], remote |-> nbrs[w][nbIdx[w] + 1]])]
            /\ active' = [active EXCEPT ![w] = @ + 1]
            /\ pc' = [pc EXCEPT ![w] = "on_add"]
       ELSE /\ pc' = [pc EXCEPT ![w] = "load"]
            /\ UNCHANGED <<nbIdx, calls, active>>
    /\ UNCHANGED <<xvars, raised, stop, conn, owner, released, session, inventory, gen, iface, nbrs,
                   err, errlog, delivered, waited, seen, stopMark>>

\* the application's on_add, called from load, returns
on_add_return(w) ==
    /\ pc[w] = "on_add"
    /\ active' = [active EXCEPT ![w] = @ - 1]
    /\ pc' = [pc EXCEPT ![w] = "ports"]
    /\ UNCHANGED <<xvars, raised, stop, conn, owner, released, session, inventory, gen, iface, nbrs, nbIdx,
                   err, errlog, calls, delivered, waited, seen, stopMark>>

\* the application's on_add, called from load, raises: the exception leaves
\* load, the with block and run
on_add_raise(w) ==
    /\ pc[w] = "on_add"
    /\ active' = [active EXCEPT ![w] = @ - 1]
    /\ raise_out(w, "on_add")
    /\ UNCHANGED <<xvars, stop, owner, session, inventory, iface, nbrs, nbIdx,
                   err, errlog, calls, delivered, waited, seen, stopMark>>

\* loop, line 194: while self.running; leaving loop leaves the with block
loop_check(w) ==
    /\ pc[w] = "loop"
    /\ IF running(w)
       THEN /\ pc' = [pc EXCEPT ![w] = "call_watch"]
            /\ UNCHANGED <<conn, released>>
       ELSE /\ release(w)
            /\ pc' = [pc EXCEPT ![w] = "run"]
    /\ UNCHANGED <<xvars, raised, stop, owner, session, inventory, gen, iface, nbrs, nbIdx,
                   err, errlog, active, calls, delivered, waited, seen, stopMark>>

\* loop, line 195: LIB.lldpctl_watch(conn) is called and blocks
call_watch(w) ==
    /\ pc[w] = "call_watch"
    /\ waited' = [waited EXCEPT ![w] = TRUE]
    /\ pc' = [pc EXCEPT ![w] = "watch"]
    /\ stopMark' = [stopMark EXCEPT ![w].waits = IF stop[w] THEN @ + 1 ELSE @]
    /\ UNCHANGED <<xvars, raised, stop, conn, owner, released, session, inventory, gen, iface, nbrs, nbIdx,
                   err, errlog, active, calls, delivered, seen>>

\* a process whose deleted and updated branches are exchanged
process_swapped(cbtype, local, remote, n) ==
    LET args == [local |-> AtomInit("Atom", local), remote |-> AtomInit("Port", remote),
                 src |-> "watch", note |-> n, fn |-> "none"]
    IN IF cbtype = "lldpctl_c_added"
       THEN <<[args EXCEPT !.fn = "on_add"]>>
       ELSE IF cbtype = "lldpctl_c_deleted"
       THEN <<[args EXCEPT !.fn = "on_update"]>>
       ELSE IF cbtype = "lldpctl_c_updated"
       THEN <<[args EXCEPT !.fn = "on_delete"]>>
       ELSE <<>>

\* Watcher.process (lines 148-159): the override a change type is routed to,
\* as the log entries the call adds
process(cbtype, local, remote, n) ==
    LET args == [local |-> AtomInit("Atom", local), remote |-> AtomInit("Port", remote),
                 src |-> "watch", note |-> n, fn |-> "none"]
    IN IF cbtype = "lldpctl_c_added"
       THEN <<[args EXCEPT !.fn = "on_add"]>>
       ELSE IF cbtype = "lldpctl_c_deleted"
       THEN <<[args EXCEPT !.fn = "on_delete"]>>
       ELSE IF cbtype = "lldpctl_c_updated"
       THEN <<[args EXCEPT !.fn = "on_update"]>>
       ELSE <<>>

\* inside lldpctl_watch the backend delivers a notification: it calls the
\* registered callback, process, on the waiting thread
deliver(w, cbtype) ==
    /\ pc[w] = "watch"
    /\ conn[w] # NullConn
    /\ Len(delivered[w]) < daemon.events
    /\ LET n == Len(delivered[w]) + 1
           invoked == process(cbtype, EventLocal, EventRemote, n)
       IN /\ delivered' = [delivered EXCEPT ![w] = Append(@, cbtype)]
          /\ calls' = [calls EXCEPT ![w] = @ \o invoked]
          /\ active' = [active EXCEPT ![w] = @ + Len(invoked)]
          /\ pc' = [pc EXCEPT ![w] = IF invoked # <<>> THEN "process" ELSE "watch"]
    /\ UNCHANGED <<xvars, raised, stop, conn, owner, released, session, inventory, gen, iface, nbrs, nbIdx,
                   err, errlog, waited, seen, stopMark>>

\* the override called from process returns, or raises: cffi prints an
\* exception raised in a callback and returns to the library
override_end(w) ==
    /\ pc[w] = "process"
    /\ active' = [active EXCEPT ![w] = @ - 1]
    /\ pc' = [pc EXCEPT ![w] = "watch"]
    /\ UNCHANGED <<xvars, raised, stop, conn, owner, released, session, inventory, gen, iface, nbrs, nbIdx,
                   err, errlog, calls, delivered, waited, seen, stopMark>>

\* lldpctl_watch returns: err = LIB.lldpctl_watch(conn) (line 195); on a NULL
\* connection it has nothing to wait for and can only answer an error
watch_return(w, code) ==
    /\ pc[w] = "watch"
    /\ code # 0 => SumOver(errlog, Watchers) < MaxErrors
    /\ code = 0 => conn[w] # NullConn
    /\ err' = [err EXCEPT ![w] = code]
    /\ pc' = [pc EXCEPT ![w] = "err_check"]
    /\ UNCHANGED <<xvars, raised, stop, conn, owner, released, session, inventory, gen, iface, nbrs, nbIdx,
                   errlog, active, calls, delivered, waited, seen, stopMark>>

\* loop, line 196: if not err
is_error(code) == code # 0

\* loop, lines 196-199: continue on 0; otherwise LOGGER.error is called with
\* the error text and runs the application's logging handlers on this
\* thread, the connection still open
err_check(w) ==
    /\ pc[w] = "err_check"
    /\ IF ~is_error(err[w])
       THEN /\ pc' = [pc EXCEPT ![w] = "loop"]
            /\ UNCHANGED errlog
       ELSE /\ errlog' = [errlog EXCEPT ![w] = @ + 1]
            /\ pc' = [pc EXCEPT ![w] = "break"]
    /\ UNCHANGED <<xvars, raised, stop, conn, owner, released, session, inventory, gen, iface, nbrs,
                   nbIdx, err, active, calls, delivered, waited, seen, stopMark>>

\* LOGGER.error returns and loop goes on to line 200: break leaves loop and
\* the with block, connect resumes after its yield and releases the
\* connection (line 128)
loop_break(w) ==
    /\ pc[w] = "break"
    /\ release(w)
    /\ pc' = [pc EXCEPT ![w] = "run"]
    /\ UNCHANGED <<xvars, raised, stop, owner, session, inventory, gen, iface, nbrs, nbIdx,
                   err, errlog, active, calls, delivered, waited, seen, stopMark>>

\* LOGGER.error (line 199) raises what a logging handler of the application
\* raised in its emit: the exception leaves loop, the with block and run
logger_error_raise(w) ==
    /\ pc[w] = "break"
    /\ raise_out(w, "LOGGER.error")
    /\ UNCHANGED <<xvars, stop, owner, session, inventory, iface, nbrs, nbIdx,
                   err, errlog, active, calls, delivered, waited, seen, stopMark>>

\* the library dereferences the NULL connection it was given, by
\* lldpctl_watch_callback (line 126), lldpctl_get_interfaces (line 102) or
\* lldpctl_watch (line 195): the process dies, and every thread with it
null_deref(w) ==
    /\ conn[w] = NullConn
    /\ \/ pc[w] = "load" /\ gen[w].state = "none"
       \/ pc[w] = "watch"
    /\ pc' = [x \in Watchers |-> IF pc[x] \in {"idle", "done"} THEN pc[x] ELSE "crashed"]
    /\ raised' = [raised EXCEPT ![w] = "SIGSEGV"]
    /\ active' = [x \in Watchers |-> 0]
    /\ UNCHANGED <<xvars, stop, conn, owner, released, session, inventory, gen, iface, nbrs, nbIdx,
                   err, errlog, calls, delivered, waited, seen, stopMark>>

\* one step of Watcher w: its thread, its application, its backend
Step(w) ==
    \/ Start(w)
    \/ SetStop(w)
    \/ run_check(w)
    \/ connect(w)
    \/ load_next(w)
    \/ ports_step(w)
    \/ on_add_return(w)
    \/ on_add_raise(w)
    \/ loop_check(w)
    \/ call_watch(w)
    \/ \E cbtype \in ChangeTypes : deliver(w, cbtype)
    \/ override_end(w)
    \/ \E code \in WatchCodes : watch_return(w, code)
    \/ err_check(w)
    \/ loop_break(w)
    \/ logger_error_raise(w)
    \/ null_deref(w)

\* the Watchers the application starts
Started == {"w1"}
Next == \E w \in Started : Step(w)
Spec == Init /\ [][Next]_vars

\* two Watchers run side by side, each with its own thread and connection;
\* the daemon has one interface with one neighbor and sends at most
\* MultiEvents notifications in a session
InitMulti ==
    /\ InitPython
    /\ InitWatchers
    /\ InitWalk
    /\ InitDecode
    /\ InitFlags
    /\ daemon = [inventories |-> "one", events |-> MultiEvents]
NextMulti == \E w \in Watchers : Step(w)
SpecMulti == InitMulti /\ [][NextMulti]_vars

\* what the thread does by itself once it runs: every step of run, an override
\* coming back, and lldpctl_watch returning
Progress(w) ==
    \/ run_check(w)
    \/ connect(w)
    \/ load_next(w)
    \/ ports_step(w)
    \/ on_add_return(w)
    \/ on_add_raise(w)
    \/ loop_check(w)
    \/ call_watch(w)
    \/ override_end(w)
    \/ \E code \in WatchCodes : watch_return(w, code)
    \/ err_check(w)
    \/ loop_break(w)
    \/ logger_error_raise(w)
    \/ null_deref(w)
\* the thread is scheduled, overrides end, and every wait call returns
FairSpec == Spec /\ \A w \in Started : WF_vars(Progress(w))

\* ------------------------------------------------ Atom.walk and a consumer
\* the consumer asks for the next element
consumer_next ==
    /\ imported
    /\ wgen.state \in {"created", "suspended"}
    /\ wgen' = walk_next(wgen)
    /\ UNCHANGED <<wvars, dvars, flags, daemon, python>>

\* the consumer decodes the element it was given, as the comprehension of
\* _decode_as_atom (line 44) and Interface.iterator (line 106) do
consumer_decode ==
    /\ imported
    /\ wgen.state = "suspended"
    /\ <<"decode", wgen.value>> \notin Range(wgen.log)
    /\ wgen' = walk_decode(wgen)
    /\ UNCHANGED <<wvars, dvars, flags, daemon, python>>

\* the consumer stops after an element it was given: the generator is closed
consumer_stop ==
    /\ imported
    /\ wgen.state = "suspended"
    /\ wgen' = walk_close(wgen)
    /\ UNCHANGED <<wvars, dvars, flags, daemon, python>>

\* a walk is created on any list handle, nothing else running
InitWalkLists ==
    /\ InitPython
    /\ InitWatchers
    /\ wgen \in { NewWalk(l) : l \in ListsUpTo(MgmtAtoms, MaxLen) }
    /\ InitDecode
    /\ InitFlags
    /\ InitDaemon
NextWalk == consumer_next \/ consumer_decode \/ consumer_stop
SpecWalk == InitWalkLists /\ [][NextWalk]_vars

\* ------------------------------------------------ the decoder on one atom
\* the interface atoms the decoder is checked on
InterfaceAtoms ==
    { [ str  |-> BackendAtom(Named("interface_name", n), NoFields).str,
        lst  |-> BackendAtom(NoFields, NoFields).lst,
        port |-> p ] : n \in {NULL, "eth0"}, p \in PortsAtoms }

\* cls(ptr): one record is decoded from one handle
decode_step ==
    /\ imported
    /\ ~ddone
    /\ drec' = IF dcls = "Interface" THEN InterfaceInit(dptr) ELSE AtomInit(dcls, dptr)
    /\ ddone' = TRUE
    /\ UNCHANGED <<wvars, wgen, dcls, dptr, flags, daemon, python>>

\* a record class is about to decode any atom, nothing else running
InitDecodeInputs ==
    /\ InitPython
    /\ InitWatchers
    /\ InitWalk
    /\ \/ dcls \in {"Atom", "Port", "Ports"} /\ dptr \in MgmtAtoms \cup PortAtoms \cup PortsAtoms
       \/ dcls = "Interface" /\ dptr \in InterfaceAtoms
    /\ drec = NoRecord
    /\ ddone = FALSE
    /\ InitFlags
    /\ InitDaemon
NextDecode == decode_step
SpecDecode == InitDecodeInputs /\ [][NextDecode]_vars

\* ------------------------------------------- the capability properties
\* the texts lldpctl_atom_get_str may answer for chassis_cap_enabled
CapTexts == {NULL} \cup { ToString(n) : n \in 0..MaxCaps }
\* the application reads one of the four properties of the decoded record
read_flag(p) ==
    /\ imported
    /\ ddone
    /\ p \notin DOMAIN flags
    /\ flags' = [q \in DOMAIN flags \cup {p} |->
                   IF q = p THEN enabled(drec, FlagOf[p]) ELSE flags[q]]
    /\ UNCHANGED <<wvars, wgen, dvars, daemon, python>>

\* a record class is about to decode an atom with any capability value
InitFlagInputs ==
    /\ InitPython
    /\ InitWatchers
    /\ InitWalk
    /\ dcls \in {"Atom", "Port", "Ports"}
    /\ dptr \in { BackendAtom(Named("chassis_cap_enabled", c), NoFields) : c \in CapTexts }
    /\ drec = NoRecord
    /\ ddone = FALSE
    /\ InitFlags
    /\ InitDaemon
NextFlags == decode_step \/ \E p \in Properties : read_flag(p)
SpecFlags == InitFlagInputs /\ [][NextFlags]_vars

\* ----------------------------------------------------------------- claims
K(rest) == <<prefix, rest>>
\* the (interface name, neighbor name) pairs of a backend interface list, in
\* the backend's order, read from the backend atoms themselves
IfPairs(a) ==
    LET nb == a.port.lst[K("port_neighbors")]
    IN [ j \in 1..Len(nb.items) |->
           <<a.str[K("interface_name")], nb.items[j].str[K("port_name")]>> ]
RECURSIVE PairsFrom(_, _)
PairsFrom(items, i) ==
    IF i > Len(items) THEN <<>> ELSE IfPairs(items[i]) \o PairsFrom(items, i + 1)
ExpectedPairs(lst) == PairsFrom(lst.items, 1)

IsLoad(c) == c.src = "load"
IsWatch(c) == c.src = "watch"
LoadCalls(w) == SelectSeq(calls[w], IsLoad)
WatchCalls(w) == SelectSeq(calls[w], IsWatch)
\* the names the Load calls of this session were given, in call order
LoadCallNames(w) ==
    [ i \in 1..Len(LoadCalls(w)) |->
        <<LoadCalls(w)[i].local["interface_name"], LoadCalls(w)[i].remote["port_name"]>> ]
\* the thread positions inside load
LoadPcs == {"load", "ports", "on_add"}
\* the thread positions from which run is not inside the with block
OutOfScope == {"idle", "run", "connect", "done", "crashed"}

\* C1: once lldpctl_watch has been called in a session, Load has called on_add
\* exactly once per (interface, neighbor) pair the backend held at connect
\* time, in the backend's order, and every Load call of the session precedes
\* every Watch-driven call of the session.
C1_LoadBeforeWatch ==
    \A w \in Watchers :
        (waited[w] \/ WatchCalls(w) # <<>>) =>
            /\ LoadCallNames(w) = ExpectedPairs(inventory[w])
            /\ \A i \in DOMAIN LoadCalls(w) : LoadCalls(w)[i].fn = "on_add"
            /\ \A i, j \in DOMAIN calls[w] :
                 (IsWatch(calls[w][i]) /\ IsLoad(calls[w][j])) => j < i
\* two interfaces with one neighbor each, both reported, then a Watch callback
C1_Witness ==
    /\ Len(inventory["w1"].items) = 2
    /\ Len(ExpectedPairs(inventory["w1"])) = 2
    /\ Len(LoadCalls("w1")) = 2
    /\ Len(WatchCalls("w1")) = 1

\* the override the claim gives each change type
OverrideOf(cbtype) ==
    CASE cbtype = "lldpctl_c_added" -> "on_add"
      [] cbtype = "lldpctl_c_deleted" -> "on_delete"
      [] cbtype = "lldpctl_c_updated" -> "on_update"

\* C2: every notification the backend delivered has exactly one override
\* invocation, and it is the override of its change type: the Watch-driven
\* calls of a session match its notifications one to one.
C2_OneOverridePerEvent ==
    \A w \in Watchers :
        /\ Len(WatchCalls(w)) = Len(delivered[w])
        /\ \A i \in DOMAIN delivered[w] :
             WatchCalls(w)[i].fn = OverrideOf(delivered[w][i])
\* a deleted and an updated notification were delivered in one session
C2_Witness ==
    /\ delivered["w1"] = <<"lldpctl_c_deleted", "lldpctl_c_updated">>
    /\ Len(WatchCalls("w1")) = 2

\* C3: whenever run is outside the with block, having left it by Load and
\* Watch completing, by a wait error, by cancellation or by an exception that
\* on_add or the logging of a wait error raised, every connection the Watcher
\* opened has been released.
C3_ReleasedOnEveryExit ==
    \A w \in Watchers :
        (pc[w] \in OutOfScope /\ raised[w] \in {"none", "on_add", "LOGGER.error"}) =>
            held(w) = {}

\* C4: the steps after lldpctl_watch returns: on a nonzero code the error is
\* given to the logger once, with no override invoked; after that, again with
\* no override invoked, the connection is released and run is back at its
\* loop test; on zero the thread is back at loop's
\* test with the same connection, unreleased.  From run's loop test the
\* thread goes on to connect unless the stop flag is set, and connect opens a
\* connection that was never open before.
C4_WaitError ==
    /\ [][\A w \in Watchers :
            (pc[w] = "err_check" /\ pc'[w] # "err_check") =>
                IF err[w] # 0
                THEN /\ errlog'[w] = errlog[w] + 1
                     /\ calls'[w] = calls[w]
                     /\ active'[w] = active[w]
                     /\ conn'[w] = conn[w]
                     /\ pc'[w] = "break"
                ELSE /\ pc'[w] = "loop"
                     /\ conn'[w] = conn[w]
                     /\ released' = released
                     /\ errlog'[w] = errlog[w]]_vars
    /\ [][\A w \in Watchers :
            (pc[w] = "break" /\ pc'[w] # "break") =>
                /\ errlog'[w] = errlog[w]
                /\ calls'[w] = calls[w]
                /\ active'[w] = active[w]
                /\ released' = Append(released, conn[w])
                /\ conn[w] # NullConn => conn[w] \notin Range(released)
                /\ pc'[w] = "run"]_vars
    /\ [][\A w \in Watchers :
            (pc[w] = "run" /\ pc'[w] # "run") =>
                pc'[w] = (IF stop[w] THEN "done" ELSE "connect")]_vars
    /\ [][\A w \in Watchers :
            (pc[w] = "connect" /\ pc'[w] # "connect") =>
                /\ session'[w] = session[w] + 1
                /\ conn'[w] # NullConn =>
                     /\ conn'[w] \notin DOMAIN owner
                     /\ conn'[w] \in held(w)']_vars

\* C5: when Load has finished in a session, every tracked neighbor that an
\* earlier session reported and that the new inventory holds has been
\* reported again, exactly once, in this session.
C5_ReloadAfterReconnect ==
    \A w \in Watchers :
        pc[w] \in {"loop", "call_watch", "watch", "process", "err_check", "break"} =>
            \A p \in seen[w] \cap Range(ExpectedPairs(inventory[w])) :
                Cardinality({ i \in DOMAIN LoadCalls(w) : LoadCallNames(w)[i] = p }) = 1
\* after a wait error, the second session's Load reported a neighbor again
C5_Witness ==
    /\ errlog["w1"] = 1
    /\ ~stop["w1"]
    /\ pc["w1"] = "loop"
    /\ seen["w1"] # {}
    /\ seen["w1"] \subseteq Range(LoadCallNames("w1"))

\* C6: once the stop flag was set while load was going through the
\* interfaces, the session never calls lldpctl_watch, no further connection
\* is opened, only Load's own calls were made, and when run has ended the
\* connection is released.
C6_StopDuringLoad ==
    \A w \in Watchers :
        stopMark[w].at = "load" =>
            /\ ~waited[w]
            /\ stopMark[w].conns = 0
            /\ stopMark[w].waits = 0
            /\ WatchCalls(w) = <<>>
            /\ pc[w] \in {"done", "crashed"} => held(w) = {}

\* C7: when the thread is scheduled and every wait call returns, a Watcher
\* whose stop flag is set while load is going through the interfaces or later
\* eventually ends with its connection released.
C7_StopTerminates ==
    \A w \in Started :
        (stop[w] /\ gen[w].state # "none" /\ pc[w] \notin OutOfScope)
            ~> (pc[w] \in {"done", "crashed"} /\ held(w) = {})

\* C8: at most one override invocation of a Watcher is in progress, and the
\* Watch-driven calls are the notifications in the order the backend
\* delivered them.
C8_SequentialInOrder ==
    \A w \in Watchers :
        /\ active[w] <= 1
        /\ active[w] = 1 <=> pc[w] \in {"on_add", "process"}
        /\ \A i \in DOMAIN WatchCalls(w) : WatchCalls(w)[i].note = i
\* the second of two notifications is in its override, after two Load calls
C8_Witness ==
    /\ Len(LoadCalls("w1")) = 2
    /\ Len(WatchCalls("w1")) = 2
    /\ active["w1"] = 1
    /\ pc["w1"] = "process"

\* C9: when a walk over a list of N elements is over, whether it ran to its
\* end or the consumer stopped early, N elements were acquired and N
\* released, each acquired element exactly once.
C9_WalkBalanced ==
    wgen.state \in {"finished", "closed"} =>
        /\ Len(wgen.acq) = Len(wgen.ptr.items)
        /\ Len(wgen.rel) = Len(wgen.ptr.items)
        /\ wgen.rel = wgen.acq

\* whether the backend's value for a key, as the class reads it, is null
BackendNull(cls, k, ptr) ==
    IF k \in DOMAIN key_to_type(cls) THEN ptr.lst[k].null ELSE ptr.str[k] = NULL

\* C10 as stated: a decoded record has the field of a key exactly when the
\* backend's value for the key is non-null, for string keys and list keys.
C10_FieldIffNonNull ==
    ddone => \A k \in keys : FieldOf(k) \in DOMAIN drec <=> ~BackendNull(dcls, k, dptr)

\* C10 as amended: a string-decoded key has its field, holding the backend's
\* text, exactly when the text is non-null; a key of the sub-type mapping
\* always has its field, a list with one entry per backend element, empty
\* when the list handle is null; the record has no other field from keys.
C10_FieldPerKey ==
    ddone =>
        /\ \A k \in keys :
             IF k \in DOMAIN key_to_type(dcls)
             THEN /\ FieldOf(k) \in DOMAIN drec
                  /\ Len(drec[FieldOf(k)]) = Len(dptr.lst[k].items)
                  /\ dptr.lst[k].null => drec[FieldOf(k)] = <<>>
             ELSE /\ FieldOf(k) \in DOMAIN drec <=> dptr.str[k] # NULL
                  /\ FieldOf(k) \in DOMAIN drec => drec[FieldOf(k)] = dptr.str[k]
        /\ DOMAIN drec \subseteq Fields \cup (IF dcls = "Interface" THEN {"port"} ELSE {})
\* a Port decoded from an atom with no port_name and a NULL chassis_mgmt list
C10_Witness ==
    /\ ddone
    /\ dcls = "Port"
    /\ dptr.lst[K("chassis_mgmt")].null
    /\ dptr.str[K("port_name")] = NULL
    /\ DOMAIN drec = {"chassis_mgmt"}

\* the capability text the backend gave the decoded atom
CapText == dptr.str[K("chassis_cap_enabled")]
\* the four properties, once all were read
AllFlags == <<flags["repeater_enabled"], flags["bridge_enabled"],
              flags["wlan_enabled"], flags["router_enabled"]>>

\* C11 as stated: with chassis_cap_enabled absent the four properties are
\* false; with the value 0x06 they are repeater false, bridge true, wlan
\* false, router true.
C11_FlagsAsStated ==
    (ddone /\ DOMAIN flags = Properties) =>
        /\ CapText = NULL => AllFlags = <<FALSE, FALSE, FALSE, FALSE>>
        /\ CapText = "6" => AllFlags = <<FALSE, TRUE, FALSE, TRUE>>

\* C11 as amended: a property read from a decoded record is the bit test of
\* the capability value with the property's flag (0x02 repeater, 0x04 bridge,
\* 0x08 wlan, 0x10 router), the value being 0 when the field is absent; so
\* all four are false when it is absent, and for the value 0x06 repeater and
\* bridge are true, wlan and router false.
C11_FlagsByBitTest ==
    ddone =>
        /\ \A p \in DOMAIN flags :
             flags[p] = /\ CapText # NULL
                        /\ \E n \in 0..MaxCaps :
                             /\ ToString(n) = CapText
                             /\ (n \div FlagOf[p]) % 2 = 1
        /\ "chassis_cap_enabled" \in DOMAIN drec <=> CapText # NULL
        /\ DOMAIN flags = Properties =>
             /\ CapText = NULL => AllFlags = <<FALSE, FALSE, FALSE, FALSE>>
             /\ CapText = "6" => AllFlags = <<TRUE, TRUE, FALSE, FALSE>>
\* the four properties were read from a record decoded with the value 0x06
C11_Witness ==
    /\ ddone
    /\ CapText = "6"
    /\ drec["chassis_cap_enabled"] = "6"
    /\ DOMAIN flags = Properties
    /\ AllFlags = <<TRUE, TRUE, FALSE, FALSE>>

\* the thread positions inside loop, the connection open
LoopPcs == {"loop", "call_watch", "watch", "process", "err_check", "break"}

\* C12: in a session on a connection lldpctl_new set up, whose
\* lldpctl_get_interfaces answered NULL, the enumeration raises nothing, Load
\* calls no on_add, and the thread goes from load to loop with the session's
\* connection still open; the only exception such a session can end by is one
\* from the logging of a wait error, after the thread has waited.
C12_NullInterfaceList ==
    \A w \in Watchers :
        (/\ session[w] > 0 /\ failures(w) = 0
         /\ inventory[w].null /\ pc[w] \notin {"run", "connect", "done"}) =>
            /\ raised[w] \in {"none", "LOGGER.error"}
            /\ LoadCalls(w) = <<>>
            /\ IF raised[w] = "none"
               THEN pc[w] \in {"load"} \cup LoopPcs
               ELSE pc[w] = "crashed" /\ waited[w] /\ errlog[w] > 0
            /\ pc[w] \in LoopPcs => (conn[w] \in held(w) /\ conn[w] = Len(owner))

\* lldpctl_get_interfaces answered NULL, and the thread waits in lldpctl_watch
\* on the connection of that session, no override called
C12_Witness ==
    /\ session["w1"] = 1
    /\ inventory["w1"].null
    /\ pc["w1"] = "watch"
    /\ conn["w1"] = 1
    /\ held("w1") = {1}
    /\ calls["w1"] = <<>>
    /\ raised["w1"] = "none"

\* C13: whenever lldpctl_new has answered NULL, connect has raised
\* ConnectionError: run is never inside the with block with a NULL
\* connection, on which lldpctl_watch_callback was called and on which load
\* and loop would call lldpctl_get_interfaces and lldpctl_watch.
C13_ConnectionError ==
    \A w \in Watchers :
        /\ conn[w] # NullConn
        /\ failures(w) > 0 => raised[w] = "ConnectionError"

\* the handle a Watcher's thread is passing to the library: run's conn while
\* it is inside the with block
InUse(w) == IF pc[w] \in LoadPcs \cup LoopPcs /\ conn[w] # NullConn THEN {conn[w]} ELSE {}

\* C14: a Watcher holds at most one connection that was opened and not
\* released, the one it uses is one it opened itself and has not released,
\* and no handle is used by two Watchers.
C14_ExclusiveOwnership ==
    /\ \A w \in Watchers :
         /\ Cardinality(held(w)) <= 1
         /\ InUse(w) \subseteq held(w)
    /\ \A v, w \in Watchers : v # w => InUse(v) \cap InUse(w) = {}
\* both Watchers wait on connections of their own, one of them after a
\* reconnect
C14_Witness ==
    /\ pc["w1"] = "watch" /\ pc["w2"] = "watch"
    /\ InUse("w1") # {} /\ InUse("w2") # {}
    /\ InUse("w1") # InUse("w2")
    /\ session["w1"] = 2
    /\ Len(released) = 1

\* C15: every Watch-driven call is given the notification's local handle
\* decoded as Load decodes an interface, with the nested port record and its
\* port_neighbors list, and the remote handle decoded as a Port record.
C15_WatchArgsShape ==
    \A w \in Watchers : \A i \in DOMAIN WatchCalls(w) :
        /\ WatchCalls(w)[i].remote = AtomInit("Port", EventRemote)
        /\ "chassis_mgmt" \in DOMAIN WatchCalls(w)[i].remote
        /\ WatchCalls(w)[i].local = InterfaceInit(EventLocal)
        /\ "port" \in DOMAIN WatchCalls(w)[i].local
        /\ "port_neighbors" \in DOMAIN WatchCalls(w)[i].local["port"]

\* C16: in a walk's log every dec_ref of an element comes right after the
\* cursor was advanced past it, after the element was read and yielded; the
\* consumer decodes an element only between its yield and the cursor's
\* advance, never after its dec_ref; and no element is released twice.
C16_WalkStepOrder ==
    LET log == wgen.log
    IN \A p \in DOMAIN log :
        LET i == log[p][2]
        IN /\ log[p][1] = "dec_ref" =>
                /\ p > 1 /\ log[p - 1] = <<"iter_next", i>>
                /\ \E q \in 1..(p - 1) : log[q] = <<"yield", i>>
                /\ \A q \in DOMAIN log : q > p => log[q][2] # i
           /\ log[p][1] = "yield" => (p > 1 /\ log[p - 1] = <<"iter_value", i>>)
           /\ log[p][1] = "decode" =>
                /\ \E q \in 1..(p - 1) : log[q] = <<"yield", i>>
                /\ \A q \in 1..(p - 1) : log[q] \notin { <<"iter_next", i>>, <<"dec_ref", i>> }
\* the first element was decoded and then released, the second is with the
\* consumer
C16_Witness ==
    /\ wgen.state = "suspended"
    /\ wgen.value = 2
    /\ wgen.log = << <<"iter_value", 1>>, <<"yield", 1>>, <<"decode", 1>>,
                     <<"iter_next", 1>>, <<"dec_ref", 1>>,
                     <<"iter_value", 2>>, <<"yield", 2>>, <<"decode", 2>> >>

\* the list keys of a record class, and what they have in the backend atom
ListKeys(cls) == DOMAIN key_to_type(cls)
\* a decoded element e is the record of backend element a, of class c: its
\* text fields are a's non-null texts, and it has a list field exactly for
\* the list keys of c
ElementOf(e, a, c) ==
    /\ \A k \in keys \ ListKeys(c) :
         /\ FieldOf(k) \in DOMAIN e <=> a.str[k] # NULL
         /\ FieldOf(k) \in DOMAIN e => e[FieldOf(k)] = a.str[k]
    /\ \A k \in ListKeys(c) :
         /\ FieldOf(k) \in DOMAIN e
         /\ Len(e[FieldOf(k)]) = Len(a.lst[k].items)
\* the decoded record rec of class c has, for each list key of c, one
\* sub-record per element of atom a's list, in the list's order, of the
\* mapped class
ListsDecoded(rec, a, c) ==
    \A k \in ListKeys(c) :
        LET f == rec[FieldOf(k)]
            raw == a.lst[k]
        IN /\ raw.null => f = <<>>
           /\ Len(f) = Len(raw.items)
           /\ \A i \in DOMAIN f : ElementOf(f[i], raw.items[i], key_to_type(c)[k])

\* C17: a decoded record has, for each key of its class's sub-type mapping,
\* a list with one sub-record per element of the backend list, in the
\* backend's order, each decoded as the mapped class (Port under Ports, Atom
\* under Port), and the empty list when the list handle is NULL; an
\* Interface's port record is decoded so as a Ports record.
C17_SubTypeLists ==
    ddone =>
        /\ ListsDecoded(drec, dptr, dcls)
        /\ dcls = "Interface" => ListsDecoded(drec["port"], dptr.port, "Ports")
\* a Ports record decoded from two neighbors, the first without a name and
\* with a management address, the second with a name and a NULL list
C17_Witness ==
    /\ ddone
    /\ dcls = "Ports"
    /\ Len(dptr.lst[K("port_neighbors")].items) = 2
    /\ Len(drec["port_neighbors"]) = 2
    /\ "port_name" \notin DOMAIN drec["port_neighbors"][1]
    /\ Len(drec["port_neighbors"][1]["chassis_mgmt"]) = 1
    /\ "port_name" \in DOMAIN drec["port_neighbors"][2]
    /\ drec["port_neighbors"][2]["port_name"] = "ge-0/0/1"
    /\ dptr.lst[K("port_neighbors")].items[2].lst[K("chassis_mgmt")].null
    /\ drec["port_neighbors"][2]["chassis_mgmt"] = <<>>

\* C18: since its stop flag was set a Watcher has called lldpctl_new and
\* lldpctl_watch at most once together, so at most one of them and never
\* both; a Watcher whose flag was set before its thread was started opens no
\* connection and invokes no override.
C18_BoundedAfterStop ==
    \A w \in Watchers :
        /\ stopMark[w].conns + stopMark[w].waits <= 1
        /\ stopMark[w].at = "idle" =>
             /\ session[w] = 0
             /\ calls[w] = <<>>
             /\ active[w] = 0
             /\ pc[w] \in {"idle", "run", "done"}
\* the flag was set between run's test and connect: one connection was
\* opened after it, Load ran on it, no wait was started, and run has ended
C18_Witness ==
    /\ stop["w1"]
    /\ stopMark["w1"] = [at |-> "other", conns |-> 1, waits |-> 0]
    /\ session["w1"] = 1
    /\ Len(LoadCalls("w1")) = 1
    /\ pc["w1"] = "done"
    /\ released = <<1>>

\* C19: while a Watcher's thread is inside the with block, where
\* lldpctl_watch_callback has been called on run's connection and load and
\* loop call lldpctl_get_interfaces and lldpctl_watch on it, that connection
\* is one lldpctl_new opened for this Watcher and lldpctl_release has not
\* been given; and no connection is given to lldpctl_release twice.
C19_SessionLifecycle ==
    /\ \A w \in Watchers :
         pc[w] \in LoadPcs \cup LoopPcs =>
             /\ conn[w] \in DOMAIN owner
             /\ owner[conn[w]] = w
             /\ conn[w] \notin Range(released)
    /\ \A i, j \in DOMAIN released : released[i] = released[j] => i = j

====
